---- MODULE Spec2Model ----
(***************************************************************************)
(* Process lifecycle of gphotos-sync (src/gphotos/Main.py): invocations of *)
(* GooglePhotosSyncMain.main() on one host, the advisory lock on           *)
(* <db_path>/gphotos.lock, the SIGINT/SIGTERM handler, the phase sequence  *)
(* of start() and the trace file .gphotos-terminated.                      *)
(***************************************************************************)
EXTENDS Integers, Sequences, FiniteSets, TLC

\* ---------------------------------------------------------------- bounds
\* signals delivered on the host during a run of the model
MaxSignals == 1

\* ------------------------------------------------------------- universes
Procs == {1, 2}
NoProc == 0
Dirs == {"a", "b"}
\* root_folder argument: relative to the working directory, or absolute
RootArgs == {".", "b"}
NoDbPath == "None"
DbArgs == {NoDbPath, "a"}
Signals == {"SIGINT", "SIGTERM"}

TRACE_FILE == ".gphotos-terminated"

NoPath == <<>>
Absent == "<absent>"
Empty == ""
NoExc == "none"

\* the durable store: not constructed, after LocalData(...), inside and
\* after the scope of "with self.data_store"
NoStore == "none"
StoreAfterInit == "constructed"
StoreEntered == "open"
StoreExited == "closed"

\* the six calls of start(), in program order
IndexPhotos == "IndexPhotos"
IndexAlbums == "IndexAlbums"
PersistIndex == "PersistIndex"
DownloadPhotos == "DownloadPhotos"
LinkAlbums == "LinkAlbums"
ReconcileDeletions == "ReconcileDeletions"

Flags == [skip_index : BOOLEAN, index_only : BOOLEAN,
          skip_files : BOOLEAN, do_delete : BOOLEAN]

\* flag sets used when two invocations run concurrently
PairFlags == {f \in Flags : f.skip_files /\ ~f.do_delete
                            /\ f.skip_index /\ ~f.index_only}

VARIABLES
  args,        \* parsed command line of each invocation
  cwd,         \* working directory of each process
  pc,          \* position of each process in main()
  ip,          \* index of the current / next call inside start()
  trace_file,  \* self.trace_file
  handlers,    \* sigterm_handler installed for SIGTERM and SIGINT
  hnd,         \* position inside sigterm_handler ("none" when not running)
  sig,         \* _sig_no of the running handler
  exc,         \* exception propagating through the finally clause
  invoked,     \* phases called so far by start()
  log,         \* messages logged by the process
  status,      \* exit status (meaningful once pc = "done")
  nsig,        \* signals delivered so far (to any process)
  fp,          \* directory of the open lock file object, or NoDbPath
  lockOwner,   \* process holding the lock on <dir>/gphotos.lock
  traceFile,   \* content of <dir>/.gphotos-terminated
  writable,    \* directories in which a file can be opened for writing
  traceOpens,  \* history: <<p, dir>> when p opened the trace file in dir
  sigpc,       \* history: position of main() when the last signal arrived
  failed,      \* history: "setup" or "phase" once that call has raised
  completed,   \* history: phases that have returned to start()
  store        \* state of self.data_store

vars == <<args, cwd, pc, ip, trace_file, handlers, hnd, sig, exc, invoked,
          log, status, nsig, fp, lockOwner, traceFile, writable,
          traceOpens, sigpc, failed, completed, store>>

\* ------------------------------------------------------- pure operators
\* os.path.abspath / resolution of a relative path by the OS
abspath(dir, path) == IF path = "." THEN dir ELSE path

\* os.path.join(dir, name)
join(dir, name) == <<dir, name>>

\* args.root_folder after line 190
RootFolder(p) == abspath(cwd[p], args[p].root_folder)

\* db_path of line 195; the lock file is opened relative to the cwd
DbPath(p) ==
  IF args[p].db_path # NoDbPath THEN abspath(cwd[p], args[p].db_path)
  ELSE RootFolder(p)

TraceDirIsRootFolder(p) == RootFolder(p)

\* directory in which open(TRACE_FILE, "w") creates the file
TraceDir(p) == abspath(cwd[p], ".")

\* variants of start() with one guard or one indentation changed
StartBodyDownloadAlways(a) ==
  << [phase |-> IndexPhotos,        on |-> ~a.skip_index /\ ~a.skip_files],
     [phase |-> IndexAlbums,        on |-> ~a.skip_index],
     [phase |-> PersistIndex,       on |-> ~a.skip_index],
     [phase |-> DownloadPhotos,     on |-> ~a.index_only],
     [phase |-> LinkAlbums,         on |-> ~a.index_only],
     [phase |-> ReconcileDeletions, on |-> ~a.index_only /\ a.do_delete] >>

StartBodyLinkUnderSkipFiles(a) ==
  << [phase |-> IndexPhotos,        on |-> ~a.skip_index /\ ~a.skip_files],
     [phase |-> IndexAlbums,        on |-> ~a.skip_index],
     [phase |-> PersistIndex,       on |-> ~a.skip_index],
     [phase |-> DownloadPhotos,     on |-> ~a.index_only /\ ~a.skip_files],
     [phase |-> LinkAlbums,         on |-> ~a.index_only /\ ~a.skip_files],
     [phase |-> ReconcileDeletions, on |-> ~a.index_only /\ a.do_delete] >>

StartBodyAlbumsDedented(a) ==
  << [phase |-> IndexPhotos,        on |-> ~a.skip_index /\ ~a.skip_files],
     [phase |-> IndexAlbums,        on |-> TRUE],
     [phase |-> PersistIndex,       on |-> ~a.skip_index],
     [phase |-> DownloadPhotos,     on |-> ~a.index_only /\ ~a.skip_files],
     [phase |-> LinkAlbums,         on |-> ~a.index_only],
     [phase |-> ReconcileDeletions, on |-> ~a.index_only /\ a.do_delete] >>

StartBodyStoreDedented(a) ==
  << [phase |-> IndexPhotos,        on |-> ~a.skip_index /\ ~a.skip_files],
     [phase |-> IndexAlbums,        on |-> ~a.skip_index],
     [phase |-> PersistIndex,       on |-> TRUE],
     [phase |-> DownloadPhotos,     on |-> ~a.index_only /\ ~a.skip_files],
     [phase |-> LinkAlbums,         on |-> ~a.index_only],
     [phase |-> ReconcileDeletions, on |-> ~a.index_only /\ a.do_delete] >>

StartBodyStoreBeforeAlbums(a) ==
  << [phase |-> IndexPhotos,        on |-> ~a.skip_index /\ ~a.skip_files],
     [phase |-> PersistIndex,       on |-> ~a.skip_index],
     [phase |-> IndexAlbums,        on |-> ~a.skip_index],
     [phase |-> DownloadPhotos,     on |-> ~a.index_only /\ ~a.skip_files],
     [phase |-> LinkAlbums,         on |-> ~a.index_only],
     [phase |-> ReconcileDeletions, on |-> ~a.index_only /\ a.do_delete] >>

StartBodyLinkDedented(a) ==
  << [phase |-> IndexPhotos,        on |-> ~a.skip_index /\ ~a.skip_files],
     [phase |-> IndexAlbums,        on |-> ~a.skip_index],
     [phase |-> PersistIndex,       on |-> ~a.skip_index],
     [phase |-> DownloadPhotos,     on |-> ~a.index_only /\ ~a.skip_files],
     [phase |-> LinkAlbums,         on |-> TRUE],
     [phase |-> ReconcileDeletions, on |-> ~a.index_only /\ a.do_delete] >>

StartBodyDeleteAlways(a) ==
  << [phase |-> IndexPhotos,        on |-> ~a.skip_index /\ ~a.skip_files],
     [phase |-> IndexAlbums,        on |-> ~a.skip_index],
     [phase |-> PersistIndex,       on |-> ~a.skip_index],
     [phase |-> DownloadPhotos,     on |-> ~a.index_only /\ ~a.skip_files],
     [phase |-> LinkAlbums,         on |-> ~a.index_only],
     [phase |-> ReconcileDeletions, on |-> ~a.index_only] >>

\* body of start(): the calls in program order with their guards
StartBody(a) ==
  << [phase |-> IndexPhotos,        on |-> ~a.skip_index /\ ~a.skip_files],
     [phase |-> IndexAlbums,        on |-> ~a.skip_index],
     [phase |-> PersistIndex,       on |-> ~a.skip_index],
     [phase |-> DownloadPhotos,     on |-> ~a.index_only /\ ~a.skip_files],
     [phase |-> LinkAlbums,         on |-> ~a.index_only],
     [phase |-> ReconcileDeletions, on |-> ~a.index_only /\ a.do_delete] >>

\* calls of start() at or after position i that the flags select
Pending(a, i) == {k \in i..Len(StartBody(a)) : StartBody(a)[k].on}

Min(S) == CHOOSE x \in S : \A y \in S : x <= y

StatusOfAlwaysZero(e) == 0

\* lines 172-184: the calls start() makes, in order, when nothing fails
RECURSIVE PhaseSeq(_, _)
PhaseSeq(a, i) ==
  IF Pending(a, i) = {}
  THEN <<>>
  ELSE LET k == Min(Pending(a, i)) IN
       <<StartBody(a)[k].phase>> \o PhaseSeq(a, k + 1)

\* exit status of the interpreter for an exception leaving main()
StatusOf(e) == IF e = "SystemExit" THEN 0 ELSE 1

\* default disposition of a signal with no handler installed
DefaultStatus(s) == IF s = "SIGINT" THEN 130 ELSE 143

TryBody == {"setup", "start", "phase"}
ExceptBlock == {"except", "except_w"}

Live(p) == pc[p] \notin {"idle", "queued", "done"}

\* traceback.format_exc() at the current position of process p
format_exc(p) ==
  IF pc[p] \in ExceptBlock \/ (pc[p] = "finally" /\ exc[p] # NoExc)
  THEN "Traceback" ELSE "NoneType: None"

LogMsg(m, path) == [msg |-> m, path |-> path]

\* ------------------------------------------------------------- initial
TypeArgs ==
  [skip_index : BOOLEAN, index_only : BOOLEAN, skip_files : BOOLEAN,
   do_delete : BOOLEAN, root_folder : RootArgs, db_path : DbArgs,
   log_level_ok : BOOLEAN]

FlagsOf(a) ==
  [skip_index |-> a.skip_index, index_only |-> a.index_only,
   skip_files |-> a.skip_files, do_delete |-> a.do_delete]

\* one invocation, every command line
InitSolo ==
  /\ args \in [Procs -> TypeArgs]
  /\ args[2] = [skip_index |-> FALSE, index_only |-> FALSE,
                skip_files |-> FALSE, do_delete |-> FALSE,
                root_folder |-> ".", db_path |-> NoDbPath,
                log_level_ok |-> TRUE]
  /\ cwd \in [Procs -> Dirs]
  /\ cwd[2] = "a"
  /\ pc = [p \in Procs |-> IF p = 1 THEN "main" ELSE "idle"]

\* two invocations on the host, started in any order
InitPair ==
  /\ args \in [Procs -> {a \in TypeArgs : FlagsOf(a) \in PairFlags
                                         /\ a.root_folder = "."
                                         /\ a.log_level_ok}]
  /\ cwd \in [Procs -> Dirs]
  /\ pc = [p \in Procs |-> "main"]

\* a split run: an index-only invocation, then (once it has ended) an
\* invocation that skips the index, with the same other flags
InitSplit ==
  /\ args \in [Procs -> {a \in TypeArgs : /\ a.root_folder = "."
                                         /\ a.db_path = NoDbPath
                                         /\ a.log_level_ok}]
  /\ ~args[1].skip_index /\ args[1].index_only
  /\ args[2].skip_index /\ ~args[2].index_only
  /\ args[2].skip_files = args[1].skip_files
  /\ args[2].do_delete = args[1].do_delete
  /\ cwd = [p \in Procs |-> "a"]
  /\ pc = [p \in Procs |-> IF p = 1 THEN "main" ELSE "queued"]
  /\ writable = Dirs

Init ==
  /\ (InitSolo \/ InitPair \/ InitSplit)
  /\ ip = [p \in Procs |-> 1]
  /\ trace_file = [p \in Procs |-> NoPath]
  /\ handlers = [p \in Procs |-> FALSE]
  /\ hnd = [p \in Procs |-> "none"]
  /\ sig = [p \in Procs |-> "none"]
  /\ exc = [p \in Procs |-> NoExc]
  /\ invoked = [p \in Procs |-> <<>>]
  /\ log = [p \in Procs |-> {}]
  /\ status = [p \in Procs |-> 0]
  /\ nsig = 0
  /\ fp = [p \in Procs |-> NoDbPath]
  /\ lockOwner = [d \in Dirs |-> NoProc]
  /\ traceFile = [d \in Dirs |-> Absent]
  /\ writable \in SUBSET Dirs
  /\ traceOpens = {}
  /\ sigpc = [p \in Procs |-> "none"]
  /\ failed = [p \in Procs |-> "none"]
  /\ completed = [p \in Procs |-> <<>>]
  /\ store = [p \in Procs |-> NoStore]

\* ------------------------------------------------------ process death
ReleaseNothing(p) == lockOwner

\* closing fp (or the death of the process) drops its lock
Release(p) == [d \in Dirs |-> IF lockOwner[d] = p THEN NoProc ELSE lockOwner[d]]

\* the process ends with exit status st
Exit(p, st) ==
  /\ pc' = [pc EXCEPT ![p] = "done"]
  /\ status' = [status EXCEPT ![p] = st]
  /\ exc' = [exc EXCEPT ![p] = NoExc]
  /\ fp' = [fp EXCEPT ![p] = NoDbPath]
  /\ lockOwner' = Release(p)

\* exception e is raised at the current position of main()
Raise(p, e) ==
  IF pc[p] \in TryBody /\ e = "Exception"
  THEN /\ pc' = [pc EXCEPT ![p] = "except"]
       /\ UNCHANGED <<status, exc, fp, lockOwner>>
  ELSE IF pc[p] \in TryBody \cup ExceptBlock
  THEN /\ pc' = [pc EXCEPT ![p] = "finally"]
       /\ exc' = [exc EXCEPT ![p] = e]
       /\ UNCHANGED <<status, fp, lockOwner>>
  ELSE Exit(p, StatusOf(e))

TryCompletedIntoExcept == "except"

\* where control goes when the body of the try statement completes
TryCompleted == "finally"

\* line 173: entering the "with self.data_store" block
WithEnter(p) == [store EXCEPT ![p] = StoreEntered]

WithExitLeak(p) == store

\* line 173: an exception leaves the "with self.data_store" block
WithExit(p) ==
  [store EXCEPT ![p] = IF @ = StoreEntered THEN StoreExited ELSE @]

Running(p, at) == pc[p] = at /\ hnd[p] = "none"

\* open(<dir>/<name>, "w") succeeds
CanOpen(d) == d \in writable

\* ------------------------------------------------------------- main()
\* lines 188-191: parse_args, logging(args), abspath, self.trace_file
\* the shell starts a queued invocation when the ones before it have ended
Invoke(p) ==
  /\ pc[p] = "queued"
  /\ \A q \in Procs \ {p} : pc[q] = "done"
  /\ pc' = [pc EXCEPT ![p] = "main"]
  /\ UNCHANGED <<args, cwd, ip, trace_file, handlers, hnd, sig, exc,
                 invoked, log, status, nsig, fp, lockOwner, traceFile,
                 writable, traceOpens, sigpc, failed, completed, store>>

Configure(p) ==
  /\ Running(p, "main")
  /\ IF args[p].log_level_ok
     THEN /\ trace_file' = [trace_file EXCEPT
                              ![p] = join(RootFolder(p), TRACE_FILE)]
          /\ pc' = [pc EXCEPT ![p] = "install"]
          /\ UNCHANGED <<status, exc, fp, lockOwner>>
     ELSE \* logging() raises ValueError, nothing catches it
          /\ Raise(p, "Exception")
          /\ UNCHANGED trace_file
  /\ UNCHANGED <<args, cwd, ip, handlers, hnd, sig, invoked, log, nsig,
                 traceFile,
                 writable, traceOpens, sigpc, failed, completed, store>>

\* main() without lines 192-193
InstallHandlersSkipped(p) ==
  /\ Running(p, "install")
  /\ pc' = [pc EXCEPT ![p] = "open"]
  /\ UNCHANGED <<args, cwd, ip, trace_file, handlers, hnd, sig, exc, invoked,
                 log, status, nsig, fp, lockOwner, traceFile,
                 writable, traceOpens, sigpc, failed, completed, store>>

\* lines 192-193: signal.signal(SIGTERM / SIGINT, self.sigterm_handler)
InstallHandlers(p) ==
  /\ Running(p, "install")
  /\ handlers' = [handlers EXCEPT ![p] = TRUE]
  /\ pc' = [pc EXCEPT ![p] = "open"]
  /\ UNCHANGED <<args, cwd, ip, trace_file, hnd, sig, exc, invoked, log,
                 status, nsig, fp, lockOwner, traceFile,
                 writable, traceOpens, sigpc, failed, completed, store>>

\* lines 195-200: db_path, makedirs, fp = open(lock_file, 'w')
OpenLockFile(p) ==
  /\ Running(p, "open")
  /\ IF CanOpen(DbPath(p))
     THEN /\ fp' = [fp EXCEPT ![p] = DbPath(p)]
          /\ pc' = [pc EXCEPT ![p] = "lock"]
          /\ UNCHANGED <<status, exc, lockOwner>>
     ELSE Raise(p, "Exception")
  /\ UNCHANGED <<args, cwd, ip, trace_file, handlers, hnd, sig, invoked,
                 log, nsig, traceFile,
                 writable, traceOpens, sigpc, failed, completed, store>>

LockGrantedAlways(p, d) == TRUE

\* fcntl.lockf(fp, LOCK_EX | LOCK_NB) succeeds for p on <d>/gphotos.lock
LockGranted(p, d) == lockOwner[d] \in {NoProc, p}

\* lines 201-213: the single lock attempt; on IOError log and sys.exit(0)
LockAttempt(p) ==
  /\ Running(p, "lock")
  /\ IF LockGranted(p, fp[p])
     THEN /\ lockOwner' = [lockOwner EXCEPT ![fp[p]] = p]
          /\ pc' = [pc EXCEPT ![p] = "setup"]
          /\ UNCHANGED <<status, exc, fp, log>>
     ELSE /\ log' = [log EXCEPT
                       ![p] = @ \cup {LogMsg("EXITING: database is locked",
                                             NoPath)}]
          /\ Raise(p, "SystemExit")
  /\ UNCHANGED <<args, cwd, ip, trace_file, handlers, hnd, sig, invoked,
                 nsig, traceFile,
                 writable, traceOpens, sigpc, failed, completed, store>>

\* line 101: self.data_store = LocalData(db_path, args.flush_index)
SetupConstruct(p) ==
  /\ Running(p, "setup")
  /\ store[p] = NoStore
  /\ store' = [store EXCEPT ![p] = StoreAfterInit]
  /\ UNCHANGED <<args, cwd, pc, ip, trace_file, handlers, hnd, sig, exc,
                 invoked, log, status, nsig, fp, lockOwner, traceFile,
                 writable, traceOpens, sigpc, failed, completed>>

\* line 217: setup() returns
SetupReturn(p) ==
  /\ Running(p, "setup")
  /\ store[p] # NoStore
  /\ pc' = [pc EXCEPT ![p] = "start"]
  /\ ip' = [ip EXCEPT ![p] = 1]
  /\ UNCHANGED <<args, cwd, trace_file, handlers, hnd, sig, exc, invoked,
                 log, status, nsig, fp, lockOwner, traceFile,
                 writable, traceOpens, sigpc, failed, completed, store>>

\* line 217: setup() raises (store, credentials, authorization)
SetupRaise(p) ==
  /\ Running(p, "setup")
  /\ Raise(p, "Exception")
  /\ failed' = [failed EXCEPT ![p] = pc[p]]
  /\ UNCHANGED <<args, cwd, ip, trace_file, handlers, hnd, sig, invoked,
                 log, nsig, traceFile,
                 writable, traceOpens, sigpc, completed, store>>

\* lines 172-184: start() reaches its next selected call, or returns
StartStep(p) ==
  /\ Running(p, "start")
  /\ IF Pending(args[p], ip[p]) # {}
     THEN LET k == Min(Pending(args[p], ip[p])) IN
          /\ ip' = [ip EXCEPT ![p] = k]
          /\ invoked' = [invoked EXCEPT
                           ![p] = Append(@, StartBody(args[p])[k].phase)]
          /\ pc' = [pc EXCEPT ![p] = "phase"]
          /\ store' = WithEnter(p)
     ELSE /\ pc' = [pc EXCEPT ![p] = TryCompleted]
          /\ store' = [store EXCEPT ![p] = StoreExited]
          /\ UNCHANGED <<ip, invoked>>
  /\ UNCHANGED <<args, cwd, trace_file, handlers, hnd, sig, exc, log,
                 status, nsig, fp, lockOwner, traceFile,
                 writable, traceOpens, sigpc, failed, completed>>

\* the phase in flight returns to start()
PhaseReturn(p) ==
  /\ Running(p, "phase")
  /\ pc' = [pc EXCEPT ![p] = "start"]
  /\ ip' = [ip EXCEPT ![p] = @ + 1]
  /\ completed' = [completed EXCEPT
                      ![p] = Append(@, StartBody(args[p])[ip[p]].phase)]
  /\ UNCHANGED <<args, cwd, trace_file, handlers, hnd, sig, exc, invoked,
                 log, status, nsig, fp, lockOwner, traceFile,
                 writable, traceOpens, sigpc, failed, store>>

\* the phase in flight raises
PhaseRaise(p) ==
  /\ Running(p, "phase")
  /\ Raise(p, "Exception")
  /\ store' = WithExit(p)
  /\ failed' = [failed EXCEPT ![p] = pc[p]]
  /\ UNCHANGED <<args, cwd, ip, trace_file, handlers, hnd, sig, invoked,
                 log, nsig, traceFile,
                 writable, traceOpens, sigpc, completed>>

\* lines 219-222: log the failure, open(TRACE_FILE, "w")
ExceptOpen(p) ==
  /\ Running(p, "except")
  /\ log' = [log EXCEPT
               ![p] = @ \cup {LogMsg("Process failed", trace_file[p])}]
  /\ IF CanOpen(TraceDir(p))
     THEN /\ traceFile' = [traceFile EXCEPT ![TraceDir(p)] = Empty]
          /\ traceOpens' = traceOpens \cup {<<p, TraceDir(p)>>}
          /\ pc' = [pc EXCEPT ![p] = "except_w"]
          /\ UNCHANGED <<status, exc, fp, lockOwner>>
     ELSE /\ Raise(p, "Exception")
          /\ UNCHANGED <<traceFile, traceOpens>>
  /\ UNCHANGED <<args, cwd, ip, trace_file, handlers, hnd, sig, invoked,
                 nsig, writable, sigpc, failed, completed, store>>

\* line 223: text_file.write(traceback.format_exc())
ExceptWrite(p) ==
  /\ Running(p, "except_w")
  /\ traceFile' = [traceFile EXCEPT ![TraceDir(p)] = format_exc(p)]
  /\ pc' = [pc EXCEPT ![p] = "finally"]
  /\ UNCHANGED <<args, cwd, ip, trace_file, handlers, hnd, sig, exc,
                 invoked, log, status, nsig, fp, lockOwner,
                 writable, traceOpens, sigpc, failed, completed, store>>

\* lines 224-225 and the end of "with fp": log Done, close the lock file;
\* a pending exception then leaves main()
Finally(p) ==
  /\ Running(p, "finally")
  /\ log' = [log EXCEPT ![p] = @ \cup {LogMsg("Done.", NoPath)}]
  /\ IF exc[p] = NoExc
     THEN /\ pc' = [pc EXCEPT ![p] = "elapsed"]
          /\ fp' = [fp EXCEPT ![p] = NoDbPath]
          /\ lockOwner' = Release(p)
          /\ UNCHANGED <<status, exc>>
     ELSE Exit(p, StatusOf(exc[p]))
  /\ UNCHANGED <<args, cwd, ip, trace_file, handlers, hnd, sig, invoked,
                 nsig, traceFile,
                 writable, traceOpens, sigpc, failed, completed, store>>

\* lines 227-228: log the elapsed time, main() returns
Elapsed(p) ==
  /\ Running(p, "elapsed")
  /\ log' = [log EXCEPT ![p] = @ \cup {LogMsg("Elapsed time", NoPath)}]
  /\ Exit(p, 0)
  /\ UNCHANGED <<args, cwd, ip, trace_file, handlers, hnd, sig, invoked,
                 nsig, traceFile,
                 writable, traceOpens, sigpc, failed, completed, store>>

\* ---------------------------------------------------- sigterm_handler
\* the kernel delivers signal s to a live process
Signal(p, s) ==
  /\ Live(p)
  /\ nsig < MaxSignals
  /\ nsig' = nsig + 1
  /\ sigpc' = [sigpc EXCEPT ![p] = pc[p]]
  /\ IF handlers[p]
     THEN /\ hnd' = [hnd EXCEPT ![p] = "entered"]
          /\ sig' = [sig EXCEPT ![p] = s]
          /\ UNCHANGED <<pc, status, exc, fp, lockOwner>>
     ELSE /\ Exit(p, DefaultStatus(s))
          /\ UNCHANGED <<hnd, sig>>
  /\ UNCHANGED <<args, cwd, ip, trace_file, handlers, invoked, log,
                 traceFile, writable, traceOpens, failed, completed, store>>

HandlerMessagesExclusive(s) ==
  IF s = "SIGINT" THEN {LogMsg("User cancelled download", NoPath)}
  ELSE {LogMsg("Process killed", join(".", TRACE_FILE))}

\* messages of lines 135-138
HandlerMessages(s) ==
  (IF s = "SIGINT" THEN {LogMsg("User cancelled download", NoPath)} ELSE {})
  \cup {LogMsg("Process killed", join(".", TRACE_FILE))}

\* lines 135-140: log, open(TRACE_FILE, "w")
HandlerOpen(p) ==
  /\ hnd[p] = "entered"
  /\ log' = [log EXCEPT ![p] = @ \cup HandlerMessages(sig[p])]
  /\ store' = (IF CanOpen(TraceDir(p)) THEN store ELSE WithExit(p))
  /\ IF CanOpen(TraceDir(p))
     THEN /\ traceFile' = [traceFile EXCEPT ![TraceDir(p)] = Empty]
          /\ traceOpens' = traceOpens \cup {<<p, TraceDir(p)>>}
          /\ hnd' = [hnd EXCEPT ![p] = "opened"]
          /\ UNCHANGED <<pc, status, exc, fp, lockOwner, sig>>
     ELSE /\ Raise(p, "Exception")
          /\ hnd' = [hnd EXCEPT ![p] = "none"]
          /\ sig' = [sig EXCEPT ![p] = "none"]
          /\ UNCHANGED <<traceFile, traceOpens>>
  /\ UNCHANGED <<args, cwd, ip, trace_file, handlers, invoked, nsig,
                 writable, sigpc, failed, completed>>

\* lines 141-142: write format_exc(), sys.exit(0)
HandlerWriteExit(p) ==
  /\ hnd[p] = "opened"
  /\ traceFile' = [traceFile EXCEPT ![TraceDir(p)] = format_exc(p)]
  /\ Raise(p, "SystemExit")
  /\ store' = WithExit(p)
  /\ hnd' = [hnd EXCEPT ![p] = "none"]
  /\ sig' = [sig EXCEPT ![p] = "none"]
  /\ UNCHANGED <<args, cwd, ip, trace_file, handlers, invoked, log, nsig,
                 writable, traceOpens, sigpc, failed, completed>>

\* ------------------------------------------------------ specification
Next ==
  \E p \in Procs :
    \/ Invoke(p)
    \/ Configure(p)
    \/ InstallHandlers(p)
    \/ OpenLockFile(p)
    \/ LockAttempt(p)
    \/ SetupConstruct(p)
    \/ SetupReturn(p)
    \/ SetupRaise(p)
    \/ StartStep(p)
    \/ PhaseReturn(p)
    \/ PhaseRaise(p)
    \/ ExceptOpen(p)
    \/ ExceptWrite(p)
    \/ Finally(p)
    \/ Elapsed(p)
    \/ \E s \in Signals : Signal(p, s)
    \/ HandlerOpen(p)
    \/ HandlerWriteExit(p)

Spec == Init /\ [][Next]_vars

\* =============================================================== claims
Msgs(p) == {m.msg : m \in log[p]}

\* p is between lock acquisition and lock release
Holding(p) ==
  pc[p] \in {"setup", "start", "phase", "except", "except_w", "finally"}

\* p takes its lock attempt in this step
Attempts(p) == pc[p] = "lock" /\ hnd[p] = "none" /\ pc'[p] # "lock"

\* start() returned to main() without raising
StartReturned(p) ==
  /\ pc[p] \in {"finally", "elapsed", "done"}
  /\ exc[p] = NoExc
  /\ "Process failed" \notin Msgs(p)
  /\ pc[p] = "done" => "Elapsed time" \in Msgs(p)

AllPhases ==
  <<IndexPhotos, IndexAlbums, PersistIndex, DownloadPhotos, LinkAlbums,
    ReconcileDeletions>>

\* the flag table of the orchestrator
Selected(f, ph) ==
  CASE ph = IndexPhotos        -> ~f.skip_index /\ ~f.skip_files
    [] ph = IndexAlbums        -> ~f.skip_index
    [] ph = PersistIndex       -> ~f.skip_index
    [] ph = DownloadPhotos     -> ~f.index_only /\ ~f.skip_files
    [] ph = LinkAlbums         -> ~f.index_only
    [] ph = ReconcileDeletions -> ~f.index_only /\ f.do_delete

Expected(f) == SelectSeq(AllPhases, LAMBDA ph : Selected(f, ph))

NoFlags(p) ==
  FlagsOf(args[p]) = [skip_index |-> FALSE, index_only |-> FALSE,
                      skip_files |-> FALSE, do_delete |-> FALSE]

\* ---- C1 ----------------------------------------------------------------
C1_Mutex ==
  \A p, q \in Procs :
    (p # q /\ Holding(p) /\ Holding(q)) => DbPath(p) # DbPath(q)

C1_NoWait ==
  \A p \in Procs : Running(p, "lock") => ENABLED LockAttempt(p)

C1_Contended ==
  \A p \in Procs :
    (Attempts(p) /\ lockOwner[fp[p]] \notin {NoProc, p})
      => /\ pc'[p] = "done"
         /\ status'[p] = 0
         /\ invoked'[p] = <<>>
         /\ lockOwner' = lockOwner

\* C1: while one invocation holds the lock on <db_path>/gphotos.lock, the
\* single lockf attempt of another invocation on the same database path
\* never waits and fails; that invocation runs neither setup() nor any
\* phase and exits with status 0; two processes with the same database path
\* are never both between lock acquisition and lock release.
C1_Theorem == [](C1_Mutex /\ C1_NoWait) /\ [][C1_Contended]_vars

C1_Witness ==
  \E p, q \in Procs :
    /\ p # q
    /\ DbPath(p) = DbPath(q)
    /\ Holding(q) /\ lockOwner[DbPath(q)] = q
    /\ pc[p] = "done" /\ status[p] = 0 /\ invoked[p] = <<>>
    /\ "EXITING: database is locked" \in Msgs(p)

\* ---- C2 ----------------------------------------------------------------
C2_Released ==
  \A p \in Procs : pc[p] = "done" => \A d \in Dirs : lockOwner[d] # p

C2_Reacquire ==
  \A p, q \in Procs :
    (p # q /\ pc[q] = "done" /\ Attempts(p))
      => pc'[p] = "setup" /\ lockOwner'[fp[p]] = p

\* C2: a process that has ended (normal completion, signal, unhandled
\* failure in setup() or a phase) holds no lock, and the lock attempt of an
\* invocation made after the other process ended succeeds.
C2_Theorem == []C2_Released /\ [][C2_Reacquire]_vars

C2_Witness ==
  \E p, q \in Procs :
    /\ p # q
    /\ DbPath(p) = DbPath(q)
    /\ pc[q] = "done" /\ invoked[q] # <<>> /\ sigpc[q] = "phase"
    /\ "Process killed" \in Msgs(q)
    /\ lockOwner[DbPath(q)] = p /\ Holding(p)

NonZeroEnd(p) ==
  \/ pc[p] = "main" /\ hnd[p] = "none" /\ ~args[p].log_level_ok
  \/ pc[p] \in {"main", "install"} /\ ~handlers[p] /\ nsig' # nsig
  \/ pc[p] = "open" /\ hnd[p] = "none" /\ ~CanOpen(DbPath(p))
  \/ hnd[p] = "entered" /\ ~CanOpen(TraceDir(p))
  \/ pc[p] = "finally" /\ hnd[p] = "none" /\ exc[p] = "Exception"

C4_Theorem ==
  \A p \in Procs :
    StartReturned(p)
      => /\ invoked[p] = Expected(FlagsOf(args[p]))
         /\ NoFlags(p) => invoked[p] = <<IndexPhotos, IndexAlbums,
                                         PersistIndex, DownloadPhotos,
                                         LinkAlbums>>

C4_Witness ==
  \E p \in Procs :
    /\ StartReturned(p) /\ pc[p] = "done" /\ NoFlags(p)
    /\ invoked[p] = <<IndexPhotos, IndexAlbums, PersistIndex,
                      DownloadPhotos, LinkAlbums>>

\* ---- C5 ----------------------------------------------------------------
Scenario5(p) ==
  args[p].skip_index /\ ~args[p].index_only /\ args[p].do_delete

\* C5 as stated: skipIndex, not indexOnly, doDelete, any skipFiles.
C5_Original ==
  \A p \in Procs :
    (StartReturned(p) /\ Scenario5(p))
      => invoked[p] = <<DownloadPhotos, LinkAlbums, ReconcileDeletions>>

\* C5 (amended): with skipIndex, not indexOnly and doDelete, a failure-free
\* run invokes [DownloadPhotos, LinkAlbums, ReconcileDeletions] when
\* skipFiles is false and [LinkAlbums, ReconcileDeletions] when it is true.
C5_Amended ==
  \A p \in Procs :
    (StartReturned(p) /\ Scenario5(p))
      => invoked[p] = IF args[p].skip_files
                      THEN <<LinkAlbums, ReconcileDeletions>>
                      ELSE <<DownloadPhotos, LinkAlbums, ReconcileDeletions>>

C5_Witness ==
  \E p \in Procs :
    /\ StartReturned(p) /\ pc[p] = "done" /\ Scenario5(p)
    /\ ~args[p].skip_files
    /\ invoked[p] = <<DownloadPhotos, LinkAlbums, ReconcileDeletions>>

\* ---- C6 ----------------------------------------------------------------
Last(q) == q[Len(q)]

LockReleased(p) == \A d \in Dirs : lockOwner[d] # p

\* a phase of p raised and no signal was delivered to p
PhaseFailed(p) == failed[p] = "phase" /\ sigpc[p] = "none"

\* C6: after an unhandled failure of a phase no later phase is invoked and
\* the failed phase is not retried (a failure of IndexAlbums leaves
\* PersistIndex uninvoked); when the process has ended the trace file was
\* written, the lock is released and the exit status is 0.
C6_Claim ==
  \A p \in Procs :
    PhaseFailed(p)
      => /\ pc[p] \notin {"start", "phase"}
         /\ Len(invoked[p]) = Cardinality({k \in 1..ip[p] :
                                             StartBody(args[p])[k].on})
         /\ Last(invoked[p]) = StartBody(args[p])[ip[p]].phase
         /\ Last(invoked[p]) = IndexAlbums
              => \A k \in DOMAIN invoked[p] : invoked[p][k] # PersistIndex
         /\ pc[p] = "done"
              => /\ \E d \in Dirs : <<p, d>> \in traceOpens
                 /\ LockReleased(p)
                 /\ status[p] = 0

\* ---- C7 ----------------------------------------------------------------
\* another process is between open() and write() of the same trace file
MidWrite(q, d) ==
  TraceDir(q) = d /\ (hnd[q] = "opened" \/ pc[q] = "except_w")

TracePresent(p) ==
  \/ traceFile[TraceDir(p)] \notin {Absent, Empty}
  \/ \E q \in Procs \ {p} : MidWrite(q, TraceDir(p))

\* C7: a process that received SIGINT or SIGTERM while a phase was in
\* flight ends with a non-empty trace file present, the lock released and
\* exit status 0.
C7_Claim ==
  \A p \in Procs :
    (pc[p] = "done" /\ sigpc[p] = "phase")
      => /\ TracePresent(p)
         /\ LockReleased(p)
         /\ status[p] = 0

\* ---- C8 ----------------------------------------------------------------
\* C8: every write of the trace goes to root_folder/.gphotos-terminated,
\* the path held in self.trace_file and announced by the failure log line.
C8_Claim ==
  \A w \in traceOpens : join(w[2], TRACE_FILE) = trace_file[w[1]]

\* ---- C9 ----------------------------------------------------------------
\* C9: a process opens the trace file for writing only after it received a
\* signal or after setup() or a phase raised; a run that completes its
\* selected phases with neither never writes the trace file.
C9_Theorem ==
  \A p \in Procs :
    /\ (\E d \in Dirs : <<p, d>> \in traceOpens)
         => (sigpc[p] # "none" \/ failed[p] # "none")
    /\ (StartReturned(p) /\ sigpc[p] = "none")
         => /\ failed[p] = "none"
            /\ \A d \in Dirs : <<p, d>> \notin traceOpens

C9_Witness ==
  \E p \in Procs :
    /\ StartReturned(p) /\ pc[p] = "done" /\ sigpc[p] = "none"
    /\ invoked[p] = Expected(FlagsOf(args[p])) /\ invoked[p] # <<>>
    /\ traceOpens = {}
    /\ \A d \in Dirs : traceFile[d] = Absent

\* ---- C10 ---------------------------------------------------------------
\* C10: with skipIndex set, none of IndexPhotos, IndexAlbums, PersistIndex
\* is ever invoked, whatever the other flags, failures and signals.
C10_Theorem ==
  \A p \in Procs :
    args[p].skip_index
      => \A k \in DOMAIN invoked[p] :
           invoked[p][k] \notin {IndexPhotos, IndexAlbums, PersistIndex}

C10_Witness ==
  \E p \in Procs :
    /\ args[p].skip_index /\ ~args[p].index_only
    /\ pc[p] = "done" /\ failed[p] = "phase"
    /\ invoked[p] # <<>>

\* ---- C11 ---------------------------------------------------------------
\* C11: with indexOnly set, none of DownloadPhotos, LinkAlbums,
\* ReconcileDeletions is ever invoked, whatever the other flags, failures
\* and signals.
C11_Theorem ==
  \A p \in Procs :
    args[p].index_only
      => \A k \in DOMAIN invoked[p] :
           invoked[p][k] \notin {DownloadPhotos, LinkAlbums,
                                 ReconcileDeletions}

C11_Witness ==
  \E p \in Procs :
    /\ args[p].index_only /\ ~args[p].skip_index /\ args[p].do_delete
    /\ StartReturned(p) /\ pc[p] = "done"
    /\ Last(invoked[p]) = PersistIndex

\* ---- C12 ---------------------------------------------------------------
\* C12: with doDelete unset, ReconcileDeletions is never invoked, whatever
\* skipIndex, indexOnly and skipFiles are.
C12_Theorem ==
  \A p \in Procs :
    ~args[p].do_delete
      => \A k \in DOMAIN invoked[p] : invoked[p][k] # ReconcileDeletions

C12_Witness ==
  \E p \in Procs :
    /\ ~args[p].do_delete /\ ~args[p].index_only
    /\ StartReturned(p) /\ pc[p] = "done"
    /\ Last(invoked[p]) = LinkAlbums

\* ---- C13 ---------------------------------------------------------------
\* positions of main() before the lock is acquired
PreLock == {"main", "install", "open", "lock"}

Rank(at) ==
  CASE at \in {"idle", "queued", "main"} -> 1
    [] at = "install"                -> 2
    [] at = "open"                   -> 3
    [] at = "lock"                   -> 4
    [] at = "setup"                  -> 5
    [] at \in {"start", "phase"}     -> 6
    [] at \in ExceptBlock            -> 7
    [] at = "finally"                -> 8
    [] at = "elapsed"                -> 9
    [] at = "done"                   -> 10

C13_Order ==
  \A p \in Procs :
    /\ Rank(pc'[p]) >= Rank(pc[p])
    /\ (handlers'[p] # handlers[p]) => (pc[p] = "install" /\ pc'[p] = "open")
    /\ (invoked'[p] # invoked[p]) => (lockOwner[fp[p]] = p /\ handlers[p])
    /\ (lockOwner'[DbPath(p)] = p /\ lockOwner[DbPath(p)] # p)
         => (pc[p] = "lock" /\ handlers[p] /\ invoked[p] = <<>>)

C13_State ==
  \A p \in Procs :
    /\ (pc[p] \in {"open", "lock", "elapsed"} \/ Holding(p)) => handlers[p]
    /\ Holding(p) <=> lockOwner[DbPath(p)] = p
    /\ "Elapsed time" \in Msgs(p) => (pc[p] = "done" /\ LockReleased(p))
    /\ pc[p] = "elapsed" => LockReleased(p)

Truncates(p) == pc[p] = "open" /\ pc'[p] = "lock"

\* p is between open() and write() of the trace file
WritingTrace(p) == hnd[p] = "opened" \/ pc[p] = "except_w"

C14_TraceExclusive ==
  \A p, q \in Procs :
    (p # q /\ WritingTrace(p) /\ WritingTrace(q))
      => TraceDir(p) # TraceDir(q)

C14_LockFileExclusive ==
  \A p \in Procs :
    Truncates(p) => lockOwner[DbPath(p)] \in {NoProc, p}

\* C14 as stated: no process truncates the lock file while another process
\* holds the lock on it, and two live processes are never both writing the
\* same trace file.
C14_Original == []C14_TraceExclusive /\ [][C14_LockFileExclusive]_vars

C14_LockHeldByLive ==
  \A d \in Dirs :
    lockOwner[d] # NoProc
      => (Live(lockOwner[d]) /\ fp[lockOwner[d]] = d)

C14_Writes ==
  \A p \in Procs :
    /\ Truncates(p) => (lockOwner[DbPath(p)] # p /\ fp'[p] = DbPath(p))
    /\ \A d \in Dirs :
         (<<p, d>> \in traceOpens' \ traceOpens)
           => (d = cwd[p] /\ handlers[p] /\ traceFile'[d] = Empty)

\* C14 (amended): the lock, not the files, is exclusive: a lock is held by
\* at most one process, which is live and has the lock file open; every
\* invocation truncates the lock file when it opens it, before its lock
\* attempt, whether or not another process holds the lock; a process with
\* the handlers installed truncates and writes the trace file of its own
\* working directory under no lock, so two live processes in one working
\* directory can write the same trace file at the same time.
C14_Amended == []C14_LockHeldByLive /\ [][C14_Writes]_vars

C14_Witness ==
  \E p, q \in Procs :
    /\ p # q /\ Live(p) /\ Live(q)
    /\ WritingTrace(p) /\ WritingTrace(q)
    /\ TraceDir(p) = TraceDir(q)
    /\ lockOwner[DbPath(q)] = q

\* ---- C15 ---------------------------------------------------------------
\* the handler of p logs its messages in this step
HandlerLogs(p) == hnd[p] = "entered" /\ hnd'[p] # "entered"

Cancelled == "User cancelled download"
Killed == "Process killed"

\* C15 as stated: SIGINT logs the user-cancelled message and not the
\* process-killed message, SIGTERM the process-killed message and not the
\* user-cancelled message.
C15_Original ==
  [][\A p \in Procs :
       HandlerLogs(p)
         => LET new == {m.msg : m \in log'[p] \ log[p]} IN
            IF sig[p] = "SIGINT"
            THEN Cancelled \in new /\ Killed \notin new
            ELSE Killed \in new /\ Cancelled \notin new]_vars

\* C15 (amended): on SIGINT the handler logs the user-cancelled message and
\* then the process-killed message; on SIGTERM it logs the process-killed
\* message only.
C15_Amended ==
  [][\A p \in Procs :
       HandlerLogs(p)
         => {m.msg : m \in log'[p]} =
              Msgs(p) \cup (IF sig[p] = "SIGINT" THEN {Cancelled, Killed}
                            ELSE {Killed})]_vars

C15_Witness ==
  \E p \in Procs :
    /\ hnd[p] = "opened" /\ sig[p] = "SIGINT"
    /\ Cancelled \in Msgs(p) /\ Killed \in Msgs(p)

\* ---- C16 ---------------------------------------------------------------
Range(q) == {q[k] : k \in DOMAIN q}

\* start() calls phase ph in this step
Begins(p, ph) == invoked'[p] = Append(invoked[p], ph)

C16_Begin ==
  \A p \in Procs :
    \A ph \in Range(AllPhases) :
      Begins(p, ph)
        => /\ completed[p] = invoked[p]
           /\ ph \notin Range(invoked[p])
           /\ ph = IndexAlbums
                => (Selected(FlagsOf(args[p]), IndexPhotos)
                      => IndexPhotos \in Range(completed[p]))
           /\ ph = PersistIndex
                => /\ IndexAlbums \in Range(completed[p])
                   /\ Selected(FlagsOf(args[p]), IndexPhotos)
                        => IndexPhotos \in Range(completed[p])
           /\ ph = ReconcileDeletions
                => LinkAlbums \in Range(completed[p])

\* at most one phase is in flight, and it is the last one called
C16_InFlight ==
  \A p \in Procs :
    /\ Len(invoked[p]) - Len(completed[p]) \in {0, 1}
    /\ \A k \in DOMAIN completed[p] : completed[p][k] = invoked[p][k]
    /\ (pc[p] = "phase" /\ hnd[p] = "none")
         => Len(invoked[p]) = Len(completed[p]) + 1

\* C16: within one invocation a phase begins only when every phase called
\* before it has returned; PersistIndex begins only after IndexAlbums, and
\* IndexPhotos when selected, have completed; IndexAlbums only after
\* IndexPhotos when both run; ReconcileDeletions only after LinkAlbums has
\* completed.
C16_Theorem == []C16_InFlight /\ [][C16_Begin]_vars

C16_Witness ==
  \E p \in Procs :
    /\ pc[p] = "done" /\ invoked[p] = AllPhases /\ completed[p] = AllPhases


Single(f) == [f EXCEPT !.skip_index = FALSE, !.index_only = FALSE]

FailureFree(p) ==
  /\ StartReturned(p)
  /\ failed[p] = "none"
  /\ sigpc[p] = "none"

IndexingPhases == {IndexPhotos, IndexAlbums, PersistIndex}

SplitRun ==
  /\ ~args[1].skip_index /\ args[1].index_only
  /\ args[2].skip_index /\ ~args[2].index_only
  /\ args[2].skip_files = args[1].skip_files
  /\ args[2].do_delete = args[1].do_delete
  /\ FailureFree(1)
  /\ FailureFree(2)

C18_Theorem ==
  /\ \A p \in Procs : FailureFree(p) => invoked[p] = PhaseSeq(args[p], 1)
  /\ SplitRun =>
       /\ invoked[1] \o invoked[2] = PhaseSeq(Single(args[1]), 1)
       /\ Range(invoked[2]) \cap IndexingPhases = {}

\* the second invocation of a split run with files and deletions has
\* returned from start() after the first one ended
C18_Witness ==
  /\ SplitRun
  /\ pc[1] = "done" /\ pc[2] = "done"
  /\ ~args[1].skip_files /\ args[1].do_delete
  /\ Len(invoked[1]) = 3 /\ Len(invoked[2]) = 3
  /\ "queued" \notin Range(<<pc[1], pc[2]>>)


\* ---------------------------------------------------------------------
\* C19: once the handler has run for a signal received during setup() or
\* a phase, the process is no longer in setup() or start(), has not taken
\* the "Process failed" branch, does not reach the elapsed-time report,
\* and ends with the lock released, exit status 0 and, when no other
\* process has opened the same trace file, the handler's trace content.
HandlerRan(p) ==
  /\ sigpc[p] \in {"setup", "phase"}
  /\ hnd[p] = "none"

C19_Claim ==
  \A p \in Procs :
    HandlerRan(p)
      => /\ pc[p] \notin TryBody \cup ExceptBlock \cup {"elapsed"}
         /\ "Process failed" \notin Msgs(p)
         /\ "Elapsed time" \notin Msgs(p)
         /\ pc[p] = "done"
              => /\ LockReleased(p)
                 /\ status[p] = 0
                 /\ (\A q \in Procs \ {p} :
                        <<q, TraceDir(p)>> \notin traceOpens)
                      => traceFile[TraceDir(p)] = "NoneType: None"

====
